---- MODULE Spec2Model ----
(***************************************************************************)
(* Model of the IREE CMake rule generator                                  *)
(*   build_tools/python/e2e_test_artifacts/cmake_generator/                *)
(*   iree_rule_generator.py                                                *)
(* and of the benchmark wrapper                                            *)
(*   runtime/bindings/python/iree/runtime/benchmark.py.                    *)
(*                                                                         *)
(* Three specifications share the module:                                  *)
(*   Spec       generate_rules, one step per loop iteration                *)
(*   SpecFlags  build_module_compile_rule and the flag resolver on one     *)
(*              compile config drawn from the full architecture set        *)
(*   SpecBench  benchmark_module up to the construction of the argv        *)
(*                                                                         *)
(* Python f-strings are modelled as tuples of their pieces, so that two    *)
(* formatted strings are equal exactly when their pieces are.  A Python    *)
(* dict is modelled as a sequence of [key, value] entries in insertion     *)
(* order.  A call that may raise returns [raised, ...].                    *)
(***************************************************************************)
EXTENDS Integers, Sequences, FiniteSets, TLC

VARIABLES
  \* ---- generate_rules ----
  module_generation_configs,   \* argument: sequence of ModuleGenerationConfig
  model_rule_map,              \* argument: dict model id -> ModelRule
  pc,                          \* position in generate_rules
  all_imported_models,         \* dict model id -> ImportedModel
  idx,                         \* position of the running for loop
  cmake_rules,                 \* the local list being filled
  model_import_rule_map,       \* dict model id -> IreeModelImportRule
  module_target_names,
  compile_stats_module_target_names,
  returned,                    \* [returned |-> BOOLEAN, rules |-> list]
  \* ---- build_module_compile_rule on its own ----
  f_compile_config, f_dialect_type, f_pc, f_rule,
  \* ---- benchmark_module ----
  b_function_names,            \* module.function_names
  b_arg,                       \* the entry_functiong argument (None or a name)
  b_kwargs, b_inputs,          \* the keyword arguments and the inputs
  b_pc, b_funcs, b_entry_functiong, b_args, b_result

gen_vars == <<module_generation_configs, model_rule_map, pc, all_imported_models,
              idx, cmake_rules, model_import_rule_map, module_target_names,
              compile_stats_module_target_names, returned>>
flag_vars == <<f_compile_config, f_dialect_type, f_pc, f_rule>>
bench_vars == <<b_function_names, b_arg, b_kwargs, b_inputs, b_pc, b_funcs, b_entry_functiong,
                b_args, b_result>>
vars == <<gen_vars, flag_vars, bench_vars>>

-----------------------------------------------------------------------------
(* Bounds of the enumerated inputs *)

MaxConfigs == 3
MaxExtraFlags == 2
MaxFunctionNames == 3

-----------------------------------------------------------------------------
(* Module constants *)

BENCHMARK_IMPORT_MODELS_CMAKE_TARGET == "iree-benchmark-import-models"
BENCHMARK_SUITES_CMAKE_TARGET == "iree-benchmark-suites"
E2E_COMPILE_STATS_SUITES == "iree-e2e-compile-stats-suites"
COMPILE_STATS_TAG == "compile-stats"
MODULE_FILENAME == "module.vmfb"
package_name == "pkg"
None == "None"

-----------------------------------------------------------------------------
(* Sequences and dicts *)

SeqsUpTo(S, n) == UNION {[1..k -> S] : k \in 0..n}

Range(s) == {s[i] : i \in DOMAIN s}

\* dict.get(key): the value, or None
DictGet(d, key) ==
  IF \E i \in DOMAIN d : d[i].key = key
  THEN LET i == CHOOSE j \in DOMAIN d : d[j].key = key IN [found |-> TRUE, value |-> d[i].value]
  ELSE [found |-> FALSE, value |-> None]

DictKeys(d) == [i \in DOMAIN d |-> d[i].key]

DictValues(d) == [i \in DOMAIN d |-> d[i].value]

\* a key set again is deleted and appended: it moves to the end
DictSetMovingToEnd(d, key, value) ==
  Append(SelectSeq(d, LAMBDA e : e.key # key), [key |-> key, value |-> value])

\* d[key] = value: a present key keeps its position and takes the new value,
\* a new key is appended
DictSet(d, key, value) ==
  IF \E i \in DOMAIN d : d[i].key = key
  THEN [i \in DOMAIN d |-> IF d[i].key = key THEN [key |-> key, value |-> value] ELSE d[i]]
  ELSE Append(d, [key |-> key, value |-> value])

\* the pairs kept as a list: no deduplication by key
PairsAsList(pairs) == pairs

\* dict(pairs)
RECURSIVE DictFromPairs(_)
DictFromPairs(pairs) ==
  IF pairs = <<>> THEN <<>>
  ELSE LET n == Len(pairs)
           last == pairs[n]
       IN DictSet(DictFromPairs(SubSeq(pairs, 1, n - 1)), last.key, last.value)

-----------------------------------------------------------------------------
(* Input universe *)

SupportedArchitectures ==
  {"x86_64", "riscv_64", "riscv_32", "adreno", "mali", "armv8.2-a", "cuda", "vmvx"}

Architectures == SupportedArchitectures \cup {"armv7-a"}

\* iree_definitions.TargetABI values
LINUX_GNU == "linux-gnu"
TargetABIs == {LINUX_GNU, "linux-android29", "vulkan-android31"}

\* the microarchitecture is a string, empty when the architecture has none
MicroArchitectures == {"", "CascadeLake"}

TargetBackends == {"llvm-cpu", "vulkan-spirv"}

DialectTypes == {"tosa", "mhlo"}

ExtraFlagValues == {<<"--iree-flow-x">>, <<"--iree-flow-y">>}

\* str.lower()
lower(s) == CASE s = "CascadeLake" -> "cascadelake"
              [] OTHER -> s

CompileTarget(backend, arch, micro, abi) ==
  [target_backend |-> backend,
   target_architecture |-> [architecture |-> arch, microarchitecture |-> micro],
   target_abi |-> abi]

-----------------------------------------------------------------------------
(* cmake_builder.rules: the rule-text factories, each modelled as the record *)
(* of the arguments it is called with                                       *)

build_iree_import_tflite_model(target_path, source, output_mlir_file) ==
  [rule |-> "iree_import_tflite_model", target_path |-> target_path,
   source |-> source, output_mlir_file |-> output_mlir_file]

build_iree_import_tf_model(target_path, source, entry_function, output_mlir_file) ==
  [rule |-> "iree_import_tf_model", target_path |-> target_path,
   source |-> source, entry_function |-> entry_function,
   output_mlir_file |-> output_mlir_file]

build_iree_bytecode_module(target_name, src, module_name, flags) ==
  [rule |-> "iree_bytecode_module", target_name |-> target_name,
   src |-> src, module_name |-> module_name, flags |-> flags]

build_add_dependencies(target, deps) ==
  [rule |-> "add_dependencies", target |-> target, deps |-> deps]

-----------------------------------------------------------------------------
(* iree_artifacts: the path-naming scheme.  The path of an imported model   *)
(* is a function of the imported model; the module directory is a function  *)
(* of the generation config.                                                *)

get_imported_model_path(imported_model) == imported_model.artifact_path

get_module_dir_path(module_generation_config) ==
  <<"module_dir", module_generation_config.imported_model.model.id,
    module_generation_config.compile_config.id>>

-----------------------------------------------------------------------------
(* IreeRuleBuilder *)

build_target_path(target_name) == <<package_name, "_">> \o target_name

\* lines 139-181: the if/elif chain over arch_info.architecture
ArchitectureFlags(arch_info, abi) ==
     CASE arch_info.architecture = "x86_64" ->
            [raised |-> FALSE, flags |->
              << <<"--iree-llvm-target-triple=x86_64-unknown-", abi>>,
                 <<"--iree-llvm-target-cpu=", lower(arch_info.microarchitecture)>> >>]
       [] arch_info.architecture = "riscv_64" ->
            [raised |-> FALSE, flags |->
              << <<"--iree-llvm-target-triple=riscv64-pc-", abi>>,
                 <<"--iree-llvm-target-cpu=generic-rv64">>,
                 <<"--iree-llvm-target-abi=lp64d">>,
                 <<"--iree-llvm-target-cpu-features=+m,+a,+f,+d,+zvl512b,+v">>,
                 <<"--riscv-v-fixed-length-vector-lmul-max=8">> >>]
       [] arch_info.architecture = "riscv_32" ->
            [raised |-> FALSE, flags |->
              << <<"--iree-llvm-target-triple=riscv32-pc-", abi>>,
                 <<"--iree-llvm-target-cpu=generic-rv32">>,
                 <<"--iree-llvm-target-abi=ilp32">>,
                 <<"--iree-llvm-target-cpu-features=+m,+a,+f,+zvl512b,+zve32x">>,
                 <<"--riscv-v-fixed-length-vector-lmul-max=8">> >>]
       [] arch_info.architecture = "adreno" ->
            [raised |-> FALSE, flags |->
              << <<"--iree-vulkan-target-triple=adreno-unknown-", abi>> >>]
       [] arch_info.architecture = "mali" ->
            [raised |-> FALSE, flags |->
              << <<"--iree-vulkan-target-triple=valhall-unknown-", abi>> >>]
       [] arch_info.architecture = "armv8.2-a" ->
            [raised |-> FALSE, flags |->
              << <<"--iree-llvm-target-triple=aarch64-none-", abi>> >>]
       [] arch_info.architecture = "cuda" ->
            IF abi # LINUX_GNU
            THEN [raised |-> TRUE, flags |-> <<>>]
            ELSE [raised |-> FALSE, flags |->
                   << <<"--iree-hal-cuda-llvm-target-arch=sm_80">> >>]
       [] arch_info.architecture = "vmvx" ->
            [raised |-> FALSE, flags |-> <<>>]
       [] OTHER -> [raised |-> TRUE, flags |-> <<>>]

\* the branch of armv8.2-a compares against a misspelt name
_generate_compile_target_flags_misspelt(target) ==
  ArchitectureFlags(
    [target.target_architecture EXCEPT
       !.architecture = IF @ = "armv8.2-a" THEN "armv8.2a" ELSE @],
    target.target_abi)

_generate_compile_target_flags(target) ==
  ArchitectureFlags(target.target_architecture, target.target_abi)

\* the resolver appends extra_flags itself, and the rule builder appends them again
_generate_compile_flags_with_extra(compile_config, mlir_dialect_type) ==
  IF Len(compile_config.compile_targets) # 1
  THEN [raised |-> TRUE, flags |-> <<>>]
  ELSE LET compile_target == compile_config.compile_targets[1]
           flags == << <<"--iree-hal-target-backends=", compile_target.target_backend>>,
                       <<"--iree-input-type=", mlir_dialect_type>> >>
           target_flags == _generate_compile_target_flags(compile_target)
       IN IF target_flags.raised
          THEN [raised |-> TRUE, flags |-> <<>>]
          ELSE [raised |-> FALSE,
                flags |-> flags \o target_flags.flags \o compile_config.extra_flags]

_generate_compile_flags(compile_config, mlir_dialect_type) ==
  IF Len(compile_config.compile_targets) # 1
  THEN [raised |-> TRUE, flags |-> <<>>]
  ELSE LET compile_target == compile_config.compile_targets[1]
           flags == << <<"--iree-hal-target-backends=", compile_target.target_backend>>,
                       <<"--iree-input-type=", mlir_dialect_type>> >>
           target_flags == _generate_compile_target_flags(compile_target)
       IN IF target_flags.raised
          THEN [raised |-> TRUE, flags |-> <<>>]
          ELSE [raised |-> FALSE, flags |-> flags \o target_flags.flags]

build_model_import_rule(source_model_rule, imported_model, output_file_path) ==
  LET model == imported_model.model
      target_name == <<"iree-imported-model-", model.id>>
  IN CASE model.source_type = "EXPORTED_LINALG_MLIR" ->
            IF source_model_rule.file_path # output_file_path
            THEN [raised |-> TRUE, target_name |-> <<>>, output_file_path |-> None,
                  cmake_rules |-> <<>>]
            ELSE [raised |-> FALSE, target_name |-> source_model_rule.target_name,
                  output_file_path |-> output_file_path, cmake_rules |-> <<>>]
       [] model.source_type = "EXPORTED_TFLITE" ->
            [raised |-> FALSE, target_name |-> target_name,
             output_file_path |-> output_file_path,
             cmake_rules |-> << build_iree_import_tflite_model(
                                  build_target_path(target_name),
                                  source_model_rule.file_path,
                                  output_file_path) >>]
       [] model.source_type = "EXPORTED_TF" ->
            [raised |-> FALSE, target_name |-> target_name,
             output_file_path |-> output_file_path,
             cmake_rules |-> << build_iree_import_tf_model(
                                  build_target_path(target_name),
                                  source_model_rule.file_path,
                                  model.entry_function,
                                  output_file_path) >>]
       [] OTHER ->
            [raised |-> TRUE, target_name |-> <<>>, output_file_path |-> None,
             cmake_rules |-> <<>>]

build_module_compile_rule(model_import_rule, imported_model, compile_config, output_file_path) ==
  LET generated == _generate_compile_flags(compile_config, imported_model.dialect_type)
      compile_flags == generated.flags \o compile_config.extra_flags
      target_name == <<"iree-module-", imported_model.model.id, "-", compile_config.id>>
  IN IF generated.raised
     THEN [raised |-> TRUE, target_name |-> <<>>, output_module_path |-> <<>>,
           cmake_rules |-> <<>>]
     ELSE [raised |-> FALSE, target_name |-> target_name,
           output_module_path |-> output_file_path,
           cmake_rules |-> << build_iree_bytecode_module(
                                target_name,
                                model_import_rule.output_file_path,
                                output_file_path,
                                compile_flags) >>]


-----------------------------------------------------------------------------
(* Inputs of generate_rules.  A CompileConfig is identified by its id, and  *)
(* a model id determines the source type.  An ImportedModel has no id of    *)
(* its own: artifact_path stands for the attributes of an imported model    *)
(* that the path-naming scheme reads, so two ImportedModels of one model id *)
(* may be given different paths.                                            *)

Model(id, source_type) ==
  [id |-> id, source_type |-> source_type, entry_function |-> "main"]

Models ==
  {Model("m1", "EXPORTED_TFLITE"), Model("m2", "EXPORTED_LINALG_MLIR"),
   Model("m3", "EXPORTED_TF")}

UnsupportedModel == Model("m4", "EXPORTED_OTHER")

ModelIds == {m.id : m \in Models \cup {UnsupportedModel}}

ArtifactPaths == {"path_a", "path_b"}

DialectOf(model) ==
  CASE model.source_type = "EXPORTED_TFLITE" -> "tosa"
    [] model.source_type = "EXPORTED_TF" -> "mhlo"
    [] OTHER -> "linalg"

ImportedModel(model, path) ==
  [model |-> model, dialect_type |-> DialectOf(model), artifact_path |-> path]

ImportedModels == {ImportedModel(m, p) : m \in Models, p \in ArtifactPaths}

CompileConfig(id, targets, extra_flags, tags) ==
  [id |-> id, compile_targets |-> targets, extra_flags |-> extra_flags, tags |-> tags]

X86Target == CompileTarget("llvm-cpu", "x86_64", "CascadeLake", LINUX_GNU)
VmvxTarget == CompileTarget("vmvx", "vmvx", "", "vmvx")

ValidCompileConfigs ==
  {CompileConfig("c1", <<X86Target>>, <<>>, {"default-flags"}),
   CompileConfig("c2", <<VmvxTarget>>, << <<"--iree-scheduling-dump-statistics">> >>,
                 {"default-flags", COMPILE_STATS_TAG})}

InvalidCompileConfigs ==
  {CompileConfig("c3", <<X86Target, VmvxTarget>>, <<>>, {}),
   CompileConfig("c4", <<CompileTarget("llvm-cpu", "armv7-a", "", LINUX_GNU)>>, <<>>, {})}

GenConfig(imported_model, compile_config) ==
  [imported_model |-> imported_model, compile_config |-> compile_config]

GenConfigs ==
  {GenConfig(i, c) : i \in ImportedModels, c \in ValidCompileConfigs}
  \cup {GenConfig(ImportedModel(Model("m1", "EXPORTED_TFLITE"), "path_a"), c) :
          c \in InvalidCompileConfigs}
  \cup {GenConfig(ImportedModel(UnsupportedModel, "path_a"),
                  CHOOSE c \in ValidCompileConfigs : c.id = "c1")}

\* the model rule of a model id: the source file of every model is at path_a
ModelRule(id) == [target_name |-> <<"model-", id>>, file_path |-> "path_a"]

ModelRuleMapOver(ids) ==
  LET all == <<"m1", "m2", "m3", "m4">>
      kept == SelectSeq(all, LAMBDA id : id \in ids)
  IN [i \in DOMAIN kept |-> [key |-> kept[i], value |-> ModelRule(kept[i])]]

ModelRuleMaps == {ModelRuleMapOver(ModelIds), ModelRuleMapOver(ModelIds \ {"m3"})}

NotReturned == [returned |-> FALSE, rules |-> <<>>]

-----------------------------------------------------------------------------
(* generate_rules *)

GenInit ==
  /\ module_generation_configs \in SeqsUpTo(GenConfigs, MaxConfigs)
  /\ model_rule_map \in ModelRuleMaps
  /\ pc = "start"
  /\ all_imported_models = <<>>
  /\ idx = 0
  /\ cmake_rules = <<>>
  /\ model_import_rule_map = <<>>
  /\ module_target_names = <<>>
  /\ compile_stats_module_target_names = <<>>
  /\ returned = NotReturned

GenIdle ==
  /\ module_generation_configs = <<>>
  /\ model_rule_map = <<>>
  /\ pc = "idle"
  /\ all_imported_models = <<>>
  /\ idx = 0
  /\ cmake_rules = <<>>
  /\ model_import_rule_map = <<>>
  /\ module_target_names = <<>>
  /\ compile_stats_module_target_names = <<>>
  /\ returned = NotReturned

\* lines 201-208: the dict of imported models by model id, the empty locals
CollectImportedModels ==
  /\ pc = "start"
  /\ UNCHANGED <<flag_vars, bench_vars>>
  /\ all_imported_models' =
       DictFromPairs([i \in DOMAIN module_generation_configs |->
                        [key |-> module_generation_configs[i].imported_model.model.id,
                         value |-> module_generation_configs[i].imported_model]])
  /\ idx' = 1
  /\ pc' = "import"
  /\ UNCHANGED <<module_generation_configs, model_rule_map, cmake_rules,
                 model_import_rule_map, module_target_names,
                 compile_stats_module_target_names, returned>>

\* lines 209-221: one iteration of the loop over all_imported_models.items()
ImportStep ==
  /\ pc = "import"
  /\ UNCHANGED <<flag_vars, bench_vars>>
  /\ idx <= Len(all_imported_models)
  /\ LET model_id == all_imported_models[idx].key
         imported_model == all_imported_models[idx].value
         model_rule == DictGet(model_rule_map, imported_model.model.id)
         imported_model_path == get_imported_model_path(imported_model)
         model_import_rule ==
           build_model_import_rule(model_rule.value, imported_model, imported_model_path)
     IN IF ~model_rule.found
        THEN /\ pc' = "raised"
             /\ UNCHANGED <<idx, cmake_rules, model_import_rule_map>>
        ELSE IF model_import_rule.raised
        THEN /\ pc' = "raised"
             /\ UNCHANGED <<idx, cmake_rules, model_import_rule_map>>
        ELSE /\ model_import_rule_map' =
                  DictSet(model_import_rule_map, model_id, model_import_rule)
             /\ cmake_rules' = cmake_rules \o model_import_rule.cmake_rules
             /\ idx' = idx + 1
             /\ pc' = "import"
  /\ UNCHANGED <<module_generation_configs, model_rule_map, all_imported_models,
                 module_target_names, compile_stats_module_target_names, returned>>

\* lines 223-225: the import loop is exhausted, the compile loop starts
ImportDone ==
  /\ pc = "import"
  /\ UNCHANGED <<flag_vars, bench_vars>>
  /\ idx > Len(all_imported_models)
  /\ pc' = "compile"
  /\ idx' = 1
  /\ UNCHANGED <<module_generation_configs, model_rule_map, all_imported_models,
                 cmake_rules, model_import_rule_map, module_target_names,
                 compile_stats_module_target_names, returned>>

\* the tag set is compared with the marker instead of searched for it
is_compile_stats_only_tag(compile_config) == compile_config.tags = {COMPILE_STATS_TAG}

\* line 235
is_compile_stats(compile_config) == COMPILE_STATS_TAG \in compile_config.tags

\* lines 225-239: one iteration of the loop over module_generation_configs
CompileStep ==
  /\ pc = "compile"
  /\ UNCHANGED <<flag_vars, bench_vars>>
  /\ idx <= Len(module_generation_configs)
  /\ LET gen_config == module_generation_configs[idx]
         model_import_rule ==
           DictGet(model_import_rule_map, gen_config.imported_model.model.id).value
         module_dir_path == get_module_dir_path(gen_config)
         module_compile_rule ==
           build_module_compile_rule(model_import_rule, gen_config.imported_model,
                                     gen_config.compile_config,
                                     Append(module_dir_path, MODULE_FILENAME))
     IN IF module_compile_rule.raised
        THEN /\ pc' = "raised"
             /\ UNCHANGED <<idx, cmake_rules, module_target_names,
                            compile_stats_module_target_names>>
        ELSE /\ IF is_compile_stats(gen_config.compile_config)
                THEN /\ compile_stats_module_target_names' =
                          Append(compile_stats_module_target_names,
                                 module_compile_rule.target_name)
                     /\ UNCHANGED module_target_names
                ELSE /\ module_target_names' =
                          Append(module_target_names, module_compile_rule.target_name)
                     /\ UNCHANGED compile_stats_module_target_names
             /\ cmake_rules' = cmake_rules \o module_compile_rule.cmake_rules
             /\ idx' = idx + 1
             /\ pc' = "compile"
  /\ UNCHANGED <<module_generation_configs, model_rule_map, all_imported_models,
                 model_import_rule_map, returned>>

\* the three aggregates appended whatever their dependency lists hold
AggregateRulesUnconditional ==
  << build_add_dependencies(
       BENCHMARK_IMPORT_MODELS_CMAKE_TARGET,
       [i \in DOMAIN model_import_rule_map |->
          build_target_path(model_import_rule_map[i].value.target_name)]),
     build_add_dependencies(
       BENCHMARK_SUITES_CMAKE_TARGET,
       [i \in DOMAIN module_target_names |-> build_target_path(module_target_names[i])]),
     build_add_dependencies(
       E2E_COMPILE_STATS_SUITES,
       [i \in DOMAIN compile_stats_module_target_names |->
          build_target_path(compile_stats_module_target_names[i])]) >>

\* lines 241-264
AggregateRules ==
  (IF Len(model_import_rule_map) > 0
   THEN << build_add_dependencies(
             BENCHMARK_IMPORT_MODELS_CMAKE_TARGET,
             [i \in DOMAIN model_import_rule_map |->
                build_target_path(DictValues(model_import_rule_map)[i].target_name)]) >>
   ELSE <<>>)
  \o
  (IF Len(module_target_names) > 0
   THEN << build_add_dependencies(
             BENCHMARK_SUITES_CMAKE_TARGET,
             [i \in DOMAIN module_target_names |->
                build_target_path(module_target_names[i])]) >>
   ELSE <<>>)
  \o
  (IF Len(compile_stats_module_target_names) > 0
   THEN << build_add_dependencies(
             E2E_COMPILE_STATS_SUITES,
             [i \in DOMAIN compile_stats_module_target_names |->
                build_target_path(compile_stats_module_target_names[i])]) >>
   ELSE <<>>)

\* lines 241-266: the compile loop is exhausted; the aggregates, the return
EmitAggregatesAndReturn ==
  /\ pc = "compile"
  /\ UNCHANGED <<flag_vars, bench_vars>>
  /\ idx > Len(module_generation_configs)
  /\ cmake_rules' = cmake_rules \o AggregateRules
  /\ returned' = [returned |-> TRUE, rules |-> cmake_rules']
  /\ pc' = "done"
  /\ UNCHANGED <<module_generation_configs, model_rule_map, all_imported_models, idx,
                 model_import_rule_map, module_target_names,
                 compile_stats_module_target_names>>


GenNext ==
  \/ CollectImportedModels
  \/ ImportStep
  \/ ImportDone
  \/ CompileStep
  \/ EmitAggregatesAndReturn

-----------------------------------------------------------------------------
(* build_module_compile_rule on one compile config *)

FlagTargets ==
  {CompileTarget(b, a, m, abi) :
     b \in TargetBackends, a \in Architectures, m \in MicroArchitectures,
     abi \in TargetABIs}

FlagTargetLists ==
  {<<>>} \cup {<<t>> : t \in FlagTargets} \cup {<<t, VmvxTarget>> : t \in FlagTargets}

FlagImportRule ==
  [raised |-> FALSE, target_name |-> <<"iree-imported-model-", "m1">>,
   output_file_path |-> "path_a", cmake_rules |-> <<>>]

FlagImportedModel(dialect_type) ==
  [model |-> Model("m1", "EXPORTED_TFLITE"), dialect_type |-> dialect_type,
   artifact_path |-> "path_a"]

NoRule == [raised |-> FALSE, target_name |-> <<>>, output_module_path |-> <<>>,
           cmake_rules |-> <<>>]

FlagInit ==
  /\ f_compile_config \in
       {CompileConfig("c1", ts, xs, {}) :
          ts \in FlagTargetLists, xs \in SeqsUpTo(ExtraFlagValues, MaxExtraFlags)}
  /\ f_dialect_type \in DialectTypes
  /\ f_pc = "call"
  /\ f_rule = NoRule

FlagIdle ==
  /\ f_compile_config = CompileConfig("c1", <<>>, <<>>, {})
  /\ f_dialect_type = "tosa"
  /\ f_pc = "idle"
  /\ f_rule = NoRule

\* lines 87-113
BuildModuleCompileRule ==
  /\ f_pc = "call"
  /\ UNCHANGED <<gen_vars, bench_vars>>
  /\ f_rule' = build_module_compile_rule(FlagImportRule,
                                         FlagImportedModel(f_dialect_type),
                                         f_compile_config,
                                         <<"module_dir", "m1", "c1", MODULE_FILENAME>>)
  /\ f_pc' = IF f_rule'.raised THEN "raised" ELSE "returned"
  /\ UNCHANGED <<f_compile_config, f_dialect_type>>

-----------------------------------------------------------------------------
(* benchmark_module *)

FunctionNames == {"__init", "main", "aux"}

EntryArgs == {None, "main", "aux", "missing"}

KwargsValues == {<<>>, << <<"benchmark_repetitions", "3">> >>}

StrInput(text) == [kind |-> "str", text |-> text]
ArrayInput(shape, dtype, values) ==
  [kind |-> "array", shape |-> shape, dtype |-> dtype, values |-> values]

InputsValues ==
  {<<>>, <<StrInput("2xf32=1")>>,
   <<ArrayInput(<<"2">>, "float32", <<"1.0", "1.0">>),
     ArrayInput(<<"2">>, "int32", <<"1", "2">>)>>}

DTYPE_TO_ABI_TYPE(dtype) ==
  CASE dtype = "float32" -> "f32"
    [] dtype = "int32" -> "i32"
    [] dtype = "int64" -> "i64"
    [] dtype = "float64" -> "f64"
    [] dtype = "int16" -> "i16"
    [] dtype = "int8" -> "i8"
    [] dtype = "bool" -> "i1"

\* "sep".join(parts), as the tuple of the parts and the separators between them
RECURSIVE Join(_, _)
Join(sep, parts) ==
  IF Len(parts) = 0 THEN <<>>
  ELSE IF Len(parts) = 1 THEN <<parts[1]>>
  ELSE <<parts[1], sep>> \o Join(sep, Tail(parts))

\* lines 71-83: the --input argument of one input
InputArg(inp) ==
  IF inp.kind = "str" THEN <<"--input=", inp.text>>
  ELSE LET shape == Join("x", inp.shape)
           abitype == DTYPE_TO_ABI_TYPE(inp.dtype)
           values == IF \A i \in DOMAIN inp.values : inp.values[1] = inp.values[i]
                     THEN <<inp.values[1]>>
                     ELSE Join(",", inp.values)
       IN <<"--input=">> \o shape \o <<"x", abitype, "=">> \o values

NoResult == [returned |-> FALSE, entry_function |-> None]

BenchInit ==
  /\ b_function_names \in SeqsUpTo(FunctionNames, MaxFunctionNames)
  /\ b_arg \in EntryArgs
  /\ b_kwargs \in KwargsValues
  /\ b_inputs \in InputsValues
  /\ b_pc = "start"
  /\ b_funcs = <<>>
  /\ b_entry_functiong = b_arg
  /\ b_args = <<>>
  /\ b_result = NoResult

BenchIdle ==
  /\ b_function_names = <<>>
  /\ b_arg = None
  /\ b_kwargs = <<>>
  /\ b_inputs = <<>>
  /\ b_pc = "idle"
  /\ b_funcs = <<>>
  /\ b_entry_functiong = None
  /\ b_args = <<>>
  /\ b_result = NoResult

\* lines 50-54: the functions other than __init; the default entry function
SelectEntryFunction ==
  /\ b_pc = "start"
  /\ UNCHANGED <<gen_vars, flag_vars>>
  /\ b_funcs' = SelectSeq(b_function_names, LAMBDA a : a # "__init")
  /\ IF b_entry_functiong = None
     THEN IF Len(b_funcs') > 1
          THEN /\ b_pc' = "raised"           \* ValueError: no function specified
               /\ UNCHANGED b_entry_functiong
          ELSE IF Len(b_funcs') = 0
          THEN /\ b_pc' = "raised"           \* IndexError: funcs[0] of an empty list
               /\ UNCHANGED b_entry_functiong
          ELSE /\ b_entry_functiong' = b_funcs'[1]
               /\ b_pc' = "check"
     ELSE /\ b_pc' = "check"
          /\ UNCHANGED b_entry_functiong
  /\ UNCHANGED <<b_function_names, b_arg, b_kwargs, b_inputs, b_args, b_result>>

\* lines 57-60
CheckEntryFunction ==
  /\ b_pc = "check"
  /\ UNCHANGED <<gen_vars, flag_vars>>
  /\ b_pc' = IF b_entry_functiong \in Range(b_funcs) THEN "args" ELSE "raised"
  /\ UNCHANGED <<b_function_names, b_arg, b_kwargs, b_inputs, b_funcs,
                 b_entry_functiong, b_args, b_result>>

\* lines 62-83: the argv of the benchmark executable
BuildArgs ==
  /\ b_pc = "args"
  /\ UNCHANGED <<gen_vars, flag_vars>>
  /\ b_args' = << <<"iree-benchmark-module">>, <<"--function=", b_funcs[1]>> >>
               \o [i \in DOMAIN b_kwargs |-> <<"--", b_kwargs[i][1], "=", b_kwargs[i][2]>>]
               \o [i \in DOMAIN b_inputs |-> InputArg(b_inputs[i])]
  /\ b_pc' = "run"
  /\ UNCHANGED <<b_function_names, b_arg, b_kwargs, b_inputs, b_funcs,
                 b_entry_functiong, b_result>>

\* lines 85-101: the executable runs; it either reports INVALID_ARGUMENT or a timing
RunBenchmark ==
  /\ b_pc = "run"
  /\ UNCHANGED <<gen_vars, flag_vars>>
  /\ \E invalid_argument \in BOOLEAN :
       IF invalid_argument
       THEN /\ b_pc' = "raised"
            /\ UNCHANGED b_result
       ELSE /\ b_pc' = "done"
            /\ b_result' = [returned |-> TRUE, entry_function |-> b_entry_functiong]
  /\ UNCHANGED <<b_function_names, b_arg, b_kwargs, b_inputs, b_funcs,
                 b_entry_functiong, b_args>>

BenchNext ==
  \/ SelectEntryFunction
  \/ CheckEntryFunction
  \/ BuildArgs
  \/ RunBenchmark

-----------------------------------------------------------------------------
(* Specifications *)

Init == GenInit /\ FlagIdle /\ BenchIdle
Next == GenNext
Spec == Init /\ [][Next]_vars

InitFlags == GenIdle /\ FlagInit /\ BenchIdle
NextFlags == BuildModuleCompileRule
SpecFlags == InitFlags /\ [][NextFlags]_vars

InitBench == GenIdle /\ FlagIdle /\ BenchInit
NextBench == BenchNext
SpecBench == InitBench /\ [][NextBench]_vars


-----------------------------------------------------------------------------
(* Vocabulary of the properties of generate_rules *)

Rules == returned.rules

ImportKinds == {"iree_import_tflite_model", "iree_import_tf_model"}

IsImportRule(r) == r.rule \in ImportKinds
IsCompileRule(r) == r.rule = "iree_bytecode_module"
IsAggregateRule(r) == r.rule = "add_dependencies"

ImportRulesOf(rules) == SelectSeq(rules, IsImportRule)
CompileRulesOf(rules) == SelectSeq(rules, IsCompileRule)
AggregateRulesOf(rules) == SelectSeq(rules, IsAggregateRule)

RuleRank(r) == IF IsImportRule(r) THEN 1 ELSE IF IsCompileRule(r) THEN 2 ELSE 3

AggregateRank(target) ==
  CASE target = BENCHMARK_IMPORT_MODELS_CMAKE_TARGET -> 1
    [] target = BENCHMARK_SUITES_CMAKE_TARGET -> 2
    [] target = E2E_COMPILE_STATS_SUITES -> 3

ConfigIndices == DOMAIN module_generation_configs
ConfigModel(i) == module_generation_configs[i].imported_model.model
ConfigCompile(i) == module_generation_configs[i].compile_config
ConfigModelIds == {ConfigModel(i).id : i \in ConfigIndices}

IsLinalg(model) == model.source_type = "EXPORTED_LINALG_MLIR"

LinalgIds == {ConfigModel(i).id : i \in {j \in ConfigIndices : IsLinalg(ConfigModel(j))}}

ImportTargetPath(id) == <<package_name, "_", "iree-imported-model-", id>>
ModuleTargetName(i) == <<"iree-module-", ConfigModel(i).id, "-", ConfigCompile(i).id>>
ModuleTargetPath(i) == <<package_name, "_">> \o ModuleTargetName(i)

\* the number of emitted import rules that define the import target of a model id
ImportRuleCount(id) ==
  Cardinality({k \in DOMAIN Rules :
                 IsImportRule(Rules[k]) /\ Rules[k].target_path = ImportTargetPath(id)})

\* the dependencies of the emitted aggregate of a target (none when not emitted)
AggregateDeps(target) ==
  UNION {Range(Rules[k].deps) :
           k \in {j \in DOMAIN Rules :
                    IsAggregateRule(Rules[j]) /\ Rules[j].target = target}}

HasAggregate(target) ==
  \E k \in DOMAIN Rules : IsAggregateRule(Rules[k]) /\ Rules[k].target = target

\* the elements of a sequence in the order of their first occurrence
RECURSIVE FirstOccurrences(_)
FirstOccurrences(seq) ==
  IF seq = <<>> THEN <<>>
  ELSE LET n == Len(seq)
           front == FirstOccurrences(SubSeq(seq, 1, n - 1))
       IN IF seq[n] \in Range(front) THEN front ELSE Append(front, seq[n])

NoDuplicates(seq) == \A i, j \in DOMAIN seq : i # j => seq[i] # seq[j]

\* every compile rule takes the output of the import rule of its own model id
CompileRulesUseTheirImportRule ==
  LET compiles == CompileRulesOf(Rules)
      imports == ImportRulesOf(Rules)
  IN /\ Len(compiles) = Len(module_generation_configs)
     /\ \A k \in ConfigIndices :
          LET id == ConfigModel(k).id
              built == DictGet(model_import_rule_map, id)
          IN /\ built.found
             /\ compiles[k].src = built.value.output_file_path
             /\ IF IsLinalg(ConfigModel(k))
                THEN compiles[k].src = DictGet(model_rule_map, id).value.file_path
                ELSE \E r \in DOMAIN imports :
                       /\ imports[r].target_path = ImportTargetPath(id)
                       /\ imports[r].output_mlir_file = compiles[k].src

OneImportRuleBuiltPerModelId ==
  /\ Len(model_import_rule_map) = Cardinality(ConfigModelIds)
  /\ Range(DictKeys(model_import_rule_map)) = ConfigModelIds

-----------------------------------------------------------------------------
(* Properties of generate_rules *)

\* C1, as stated: in every accepted run, exactly one import rule is built and
\* emitted per distinct model id of the configs, and every compile rule takes as
\* its source the output path of the import rule built for its model id.
C1_OneImportRuleEmittedPerModelId ==
  pc = "done" =>
    /\ OneImportRuleBuiltPerModelId
    /\ \A id \in ConfigModelIds : ImportRuleCount(id) = 1
    /\ CompileRulesUseTheirImportRule

\* C1, amended: in every accepted run, exactly one import rule is built per
\* distinct model id; its rule text is emitted exactly once when the model needs
\* an import and not at all when the model is already in the target dialect; every
\* compile rule takes as its source the output path of the import rule built for
\* its model id.
C1_OneImportRuleBuiltPerModelId ==
  pc = "done" =>
    /\ OneImportRuleBuiltPerModelId
    /\ \A id \in ConfigModelIds :
         ImportRuleCount(id) = IF id \in LinalgIds THEN 0 ELSE 1
    /\ CompileRulesUseTheirImportRule

\* two configs share a model that needs an import, a third has a linalg model
C1_Witness ==
  /\ pc = "done"
  /\ \E i, j, k \in ConfigIndices :
       /\ i < j
       /\ ConfigModel(i).id = ConfigModel(j).id
       /\ ~IsLinalg(ConfigModel(i))
       /\ module_generation_configs[i].imported_model.artifact_path
            # module_generation_configs[j].imported_model.artifact_path
       /\ IsLinalg(ConfigModel(k))

\* C2: in the returned list every import rule precedes every compile rule, which
\* precedes every aggregate; the import rules are in the order in which their
\* model ids first occur in the configs, the compile rules in the order of the
\* configs, the aggregates in the order import-models, benchmark-suites,
\* compile-stats-suites.
C2_EmissionOrder ==
  pc = "done" =>
    LET imports == ImportRulesOf(Rules)
        compiles == CompileRulesOf(Rules)
        aggregates == AggregateRulesOf(Rules)
        importing == SelectSeq([i \in ConfigIndices |-> ConfigModel(i)],
                               LAMBDA m : ~IsLinalg(m))
    IN /\ \A i, j \in DOMAIN Rules : i < j => RuleRank(Rules[i]) <= RuleRank(Rules[j])
       /\ [k \in DOMAIN imports |-> imports[k].target_path]
            = LET ids == FirstOccurrences([i \in DOMAIN importing |-> importing[i].id])
              IN [k \in DOMAIN ids |-> ImportTargetPath(ids[k])]
       /\ [k \in DOMAIN compiles |-> compiles[k].target_name]
            = [i \in ConfigIndices |-> ModuleTargetName(i)]
       /\ \A i, j \in DOMAIN aggregates :
            i < j => AggregateRank(aggregates[i].target) < AggregateRank(aggregates[j].target)

\* a model id occurs first, another second, the first again; all three aggregates
C2_Witness ==
  /\ pc = "done"
  /\ Len(module_generation_configs) = 3
  /\ ConfigModel(1).id = ConfigModel(3).id
  /\ ConfigModel(1).id # ConfigModel(2).id
  /\ ~IsLinalg(ConfigModel(1))
  /\ ~IsLinalg(ConfigModel(2))
  /\ Len(AggregateRulesOf(Rules)) = 3

\* what C3 calls an invalid config
ConfigInvalid(i) ==
  LET config == module_generation_configs[i]
      model_rule == DictGet(model_rule_map, ConfigModel(i).id)
      targets == ConfigCompile(i).compile_targets
  IN \/ ~model_rule.found
     \/ /\ model_rule.found
        /\ IsLinalg(ConfigModel(i))
        /\ model_rule.value.file_path # get_imported_model_path(config.imported_model)
     \/ Len(targets) # 1
     \/ /\ Len(targets) = 1
        /\ targets[1].target_architecture.architecture \notin SupportedArchitectures

\* C3: if any config of the sequence is invalid (no model rule, a linalg model
\* whose source path differs from its required output path, 0 or 2+ compile
\* targets, an unsupported architecture), the call raises and returns no rules,
\* whatever the position of the invalid config.
C3_InvalidConfigRaises ==
  (pc \in {"done", "raised"} /\ \E i \in ConfigIndices : ConfigInvalid(i)) =>
    (pc = "raised" /\ ~returned.returned)

\* C4: two configs whose imported models share a model id, are linalg models and
\* have different required output paths make generate_rules raise.
C4_MismatchedLinalgPathsRejected ==
  (\E i, j \in ConfigIndices :
      /\ ConfigModel(i).id = ConfigModel(j).id
      /\ IsLinalg(ConfigModel(i))
      /\ IsLinalg(ConfigModel(j))
      /\ get_imported_model_path(module_generation_configs[i].imported_model)
           # get_imported_model_path(module_generation_configs[j].imported_model))
    => pc # "done"

\* C5: no target name is defined by more than one emitted rule, no aggregate lists
\* the same target path twice, and every built target is in its aggregate.
C5_NoDuplicateRules ==
  pc = "done" =>
    LET imports == ImportRulesOf(Rules)
        compiles == CompileRulesOf(Rules)
        aggregates == AggregateRulesOf(Rules)
    IN /\ NoDuplicates([k \in DOMAIN imports |-> imports[k].target_path])
       /\ NoDuplicates([k \in DOMAIN compiles |-> compiles[k].target_name])
       /\ \A k \in DOMAIN aggregates : NoDuplicates(aggregates[k].deps)
       /\ \A i \in ConfigIndices :
            ModuleTargetPath(i) \in
              AggregateDeps(BENCHMARK_SUITES_CMAKE_TARGET) \cup
              AggregateDeps(E2E_COMPILE_STATS_SUITES)
       /\ \A k \in DOMAIN model_import_rule_map :
            build_target_path(model_import_rule_map[k].value.target_name)
              \in AggregateDeps(BENCHMARK_IMPORT_MODELS_CMAKE_TARGET)

\* C6: the compile target of a config whose tags hold the compile-stats marker is
\* in the compile-stats aggregate and not in the benchmark-suites aggregate; the
\* compile target of any other config is in the benchmark-suites aggregate and not
\* in the compile-stats one.
C6_TagClassification ==
  pc = "done" =>
    \A i \in ConfigIndices :
      IF COMPILE_STATS_TAG \in ConfigCompile(i).tags
      THEN /\ ModuleTargetPath(i) \in AggregateDeps(E2E_COMPILE_STATS_SUITES)
           /\ ModuleTargetPath(i) \notin AggregateDeps(BENCHMARK_SUITES_CMAKE_TARGET)
      ELSE /\ ModuleTargetPath(i) \in AggregateDeps(BENCHMARK_SUITES_CMAKE_TARGET)
           /\ ModuleTargetPath(i) \notin AggregateDeps(E2E_COMPILE_STATS_SUITES)

\* a tagged and an untagged config of the same model were both compiled
C6_Witness ==
  /\ pc = "done"
  /\ \E i, j \in ConfigIndices :
       /\ ConfigModel(i).id = ConfigModel(j).id
       /\ COMPILE_STATS_TAG \in ConfigCompile(i).tags
       /\ COMPILE_STATS_TAG \notin ConfigCompile(j).tags

\* C7: at most three aggregates are emitted, each if and only if its dependency
\* list is non-empty; with no configs the returned list is empty.
C7_AggregatesOnlyWhenNonEmpty ==
  pc = "done" =>
    LET aggregates == AggregateRulesOf(Rules)
    IN /\ Len(aggregates) <= 3
       /\ \A k \in DOMAIN aggregates : Len(aggregates[k].deps) > 0
       /\ HasAggregate(BENCHMARK_IMPORT_MODELS_CMAKE_TARGET)
            <=> Len(model_import_rule_map) > 0
       /\ HasAggregate(BENCHMARK_SUITES_CMAKE_TARGET) <=> Len(module_target_names) > 0
       /\ HasAggregate(E2E_COMPILE_STATS_SUITES)
            <=> Len(compile_stats_module_target_names) > 0
       /\ module_generation_configs = <<>> => Rules = <<>>

\* configs were compiled, none into the benchmark suites: two aggregates only
C7_Witness ==
  /\ pc = "done"
  /\ Len(module_generation_configs) >= 2
  /\ module_target_names = <<>>
  /\ Len(AggregateRulesOf(Rules)) = 2

-----------------------------------------------------------------------------
(* Properties of the flag resolver and of build_module_compile_rule *)

FlagTarget == f_compile_config.compile_targets[1]
FlagArchitecture == FlagTarget.target_architecture.architecture
BuiltFlags == f_rule.cmake_rules[1].flags

SingleSupportedTarget ==
  /\ Len(f_compile_config.compile_targets) = 1
  /\ FlagArchitecture \in SupportedArchitectures

\* the length of the architecture-specific part of the built flags
ArchitecturePartLen == Len(BuiltFlags) - 2 - Len(f_compile_config.extra_flags)

ArchitectureFlagCount(architecture) ==
  CASE architecture = "x86_64" -> 2
    [] architecture \in {"riscv_64", "riscv_32"} -> 5
    [] architecture \in {"adreno", "mali", "armv8.2-a", "cuda"} -> 1
    [] architecture = "vmvx" -> 0

Occurrences(seq, x) == Cardinality({k \in DOMAIN seq : seq[k] = x})

\* C8, as stated: for a compile target of a supported architecture, with any ABI
\* and any microarchitecture, the resolution returns and never raises, and the
\* architecture-specific part is empty only for vmvx.
C8_SupportedArchitectureNeverRaises ==
  (f_pc # "call" /\ SingleSupportedTarget) =>
    /\ f_pc = "returned"
    /\ ArchitecturePartLen = 0 <=> FlagArchitecture = "vmvx"

\* C8, amended: the same for every supported architecture and ABI except cuda
\* with an ABI other than LINUX_GNU (for which the resolution raises).
C8_SupportedArchitectureReturnsUnlessCudaAbi ==
  (/\ f_pc # "call"
   /\ SingleSupportedTarget
   /\ FlagArchitecture = "cuda" => FlagTarget.target_abi = LINUX_GNU) =>
    /\ f_pc = "returned"
    /\ ArchitecturePartLen = 0 <=> FlagArchitecture = "vmvx"

\* x86_64 without a microarchitecture, on an ABI other than LINUX_GNU
C8_Witness ==
  /\ f_pc = "returned"
  /\ SingleSupportedTarget
  /\ FlagArchitecture = "x86_64"
  /\ FlagTarget.target_architecture.microarchitecture = ""
  /\ FlagTarget.target_abi # LINUX_GNU

\* C9: the flags of the bytecode-module rule are the target-backend selector, the
\* input-dialect selector, the architecture-specific flags and then extra_flags in
\* caller order as the last flags, each extra flag as often as the caller gave it.
C9_FlagOrder ==
  f_pc = "returned" =>
    LET flags == BuiltFlags
        extra == f_compile_config.extra_flags
        n == Len(flags)
    IN /\ n = 2 + ArchitectureFlagCount(FlagArchitecture) + Len(extra)
       /\ flags[1] = <<"--iree-hal-target-backends=", FlagTarget.target_backend>>
       /\ flags[2] = <<"--iree-input-type=", f_dialect_type>>
       /\ \A k \in 3..(n - Len(extra)) : flags[k] \notin ExtraFlagValues
       /\ SubSeq(flags, n - Len(extra) + 1, n) = extra
       /\ \A x \in ExtraFlagValues : Occurrences(flags, x) = Occurrences(extra, x)

\* two different extra flags follow the five flags of riscv_64
C9_Witness ==
  /\ f_pc = "returned"
  /\ FlagArchitecture = "riscv_64"
  /\ Len(f_compile_config.extra_flags) = 2
  /\ f_compile_config.extra_flags[1] # f_compile_config.extra_flags[2]

-----------------------------------------------------------------------------
(* Property of benchmark_module *)

\* C10: the benchmark executable is invoked with --function=<the selected entry
\* function>, the function reported in BenchmarkResult.entry_function.
C10_BenchmarksSelectedFunction ==
  /\ b_pc \in {"run", "done"} => b_args[2] = <<"--function=", b_entry_functiong>>
  /\ b_pc = "done" => b_args[2] = <<"--function=", b_result.entry_function>>


====
